---------------------------- MODULE Spec2Model ----------------------------
(***************************************************************************)
(* A model of src/scripts/database.js: the Database object (init, the      *)
(* entry/revision/feed stores, the feed backups) and the Query object      *)
(* (filter compilation and the counting cursor scan).                      *)
(*                                                                         *)
(* JavaScript values whose type matters to the code (undefined, null,      *)
(* booleans, numbers, NaN, strings, arrays) are tagged records, so that    *)
(* `===`, unary plus and truthiness are computed as JavaScript does.       *)
(***************************************************************************)
EXTENDS Integers, Sequences, FiniteSets, TLC

(***************************************************************************)
(* Bounds of the model.                                                    *)
(***************************************************************************)
MaxLimit == 2
MaxOffset == 2
MaxBatch == 2

(***************************************************************************)
(* JavaScript values.                                                      *)
(***************************************************************************)
Undef == [t |-> "undefined"]
Null == [t |-> "null"]
NaN == [t |-> "NaN"]
Infinity == [t |-> "Infinity"]
Fn == [t |-> "function"]
Bool(b) == [t |-> "boolean", v |-> b]
Num(n) == [t |-> "number", v |-> n]
Str(s) == [t |-> "string", v |-> s]
\* a string whose characters matter (it is split): a sequence of characters
Text(cs) == [t |-> "string", chars |-> cs]
Arr(s) == [t |-> "array", v |-> s]

\* a === b
StrictEq(a, b) == a.t # "NaN" /\ a = b

\* +a
ToNumber(a) ==
    CASE a.t = "undefined" -> NaN
      [] a.t = "null" -> Num(0)
      [] a.t = "boolean" -> Num(IF a.v THEN 1 ELSE 0)
      [] a.t = "number" -> a
      [] OTHER -> NaN

\* the truth value of a in a condition
Truthy(a) ==
    CASE a.t \in {"undefined", "null", "NaN"} -> FALSE
      [] a.t = "boolean" -> a.v
      [] a.t = "number" -> a.v # 0
      [] a.t = "string" -> IF "chars" \in DOMAIN a THEN a.chars # <<>> ELSE a.v # ""
      [] OTHER -> TRUE

\* object[name]: undefined when the object has no such property
Get(obj, name) == IF name \in DOMAIN obj THEN obj[name] ELSE Undef

\* array.includes(x)
Includes(s, x) == \E i \in 1..Len(s) : s[i] = x

Range(s) == {s[i] : i \in 1..Len(s)}

(***************************************************************************)
(* Feeds. A Feed is an object with the properties feedID (a number), and   *)
(* possibly parent, hidden, omitInUnread, title, favicon.                  *)
(***************************************************************************)
MaxFeeds == 3

\* the feed with id i and the given parent; feed 2 is hidden, feed 3 is
\* excluded from global views, odd feeds carry a favicon, even ones a null
\* title
MakeFeed(i, parent) ==
    [key \in {"feedID", "parent", "hidden", "omitInUnread", "title"}
               \cup (IF i % 2 = 1 THEN {"favicon"} ELSE {}) |->
        CASE key = "feedID" -> Num(i)
          [] key = "parent" -> parent
          [] key = "hidden" -> Bool(i = 2)
          [] key = "omitInUnread" -> Bool(i = 3)
          [] key = "title" -> IF i % 2 = 0 THEN Null ELSE Str("title")
          [] OTHER -> Str("icon")]

(***************************************************************************)
(* Entries. An input entry (origEntry) is an object; _putEntry splits it   *)
(* into an Entry record and a Revision record.                             *)
(***************************************************************************)
ENTRY_FIELDS == {"id", "feedID", "read", "markedUnreadOnUpdate", "starred",
                 "tags", "deleted", "providedID", "entryURL", "primaryHash",
                 "secondaryHash", "date"}
REVISION_FIELDS == {"id", "authors", "title", "content", "updated"}

\* string.split(', ') on a sequence of characters: the pieces between the
\* occurrences of the separator, scanning from the left
RECURSIVE SplitFrom(_, _, _)
SplitFrom(cs, i, cur) ==
    IF i > Len(cs) THEN <<cur>>
    ELSE IF i < Len(cs) /\ cs[i] = "," /\ cs[i + 1] = " "
         THEN <<cur>> \o SplitFrom(cs, i + 2, <<>>)
         ELSE SplitFrom(cs, i + 1, Append(cur, cs[i]))

Split(cs) == SplitFrom(cs, 1, <<>>)

\* (entry.tags || '').split(', ')
SplitTags(tags) == Arr(Split(IF Truthy(tags) THEN tags.chars ELSE <<>>))

\* the Entry record _putEntry builds from origEntry
EntryRecord(origEntry) ==
    [name \in ENTRY_FIELDS \cup {"revisions", "bookmarked"} |->
        CASE name = "revisions" -> Arr(<<[id |-> Get(origEntry, "id")]>>)
          [] name = "bookmarked" ->
                Bool(~StrictEq(Get(origEntry, "bookmarkID"), Num(-1)))
          [] name = "tags" -> SplitTags(Get(origEntry, "tags"))
          [] OTHER -> Get(origEntry, name)]

\* a Revision record that keeps only the properties that are Entry fields too
RevisionRecordOfEntryFields(origEntry) ==
    [name \in REVISION_FIELDS |->
        IF name \in ENTRY_FIELDS THEN Get(origEntry, name) ELSE Undef]

\* the Revision record _putEntry builds from origEntry
RevisionRecord(origEntry) ==
    [name \in REVISION_FIELDS |-> Get(origEntry, name)]

\* IndexedDB: a value that can be a key (only numbers occur as keys here;
\* booleans, undefined, null and NaN are never valid keys)
IsValidKey(v) == v.t = "number"

\* IndexedDB: store.put(record) throws when it is issued if the record
\* cannot be cloned (DataCloneError) or its key path holds an invalid key
\* (DataError)
PutThrows(record) ==
    \/ \E name \in DOMAIN record : record[name].t = "function"
    \/ ~IsValidKey(record.id)

(***************************************************************************)
(* Query: filter compilation.                                              *)
(***************************************************************************)
\* childrenMap.get(node) || []: the ids of the feeds whose parent is node,
\* in the order of the feed list
RECURSIVE Children(_, _)
Children(feedList, node) ==
    IF feedList = <<>> THEN <<>>
    ELSE (IF Get(Head(feedList), "parent") = node
          THEN <<Head(feedList).feedID>> ELSE <<>>)
         \o Children(Tail(feedList), node)

\* a folder expansion that stops at the children of the given folders
RECURSIVE ExpandFoldersOneLevel(_, _, _)
ExpandFoldersOneLevel(feedList, new_nodes, nodes) ==
    IF Len(new_nodes) = 0 THEN nodes
    ELSE LET node == new_nodes[Len(new_nodes)]
             rest == SubSeq(new_nodes, 1, Len(new_nodes) - 1)
         IN ExpandFoldersOneLevel(feedList, rest,
                                  Append(nodes, node) \o Children(feedList, node))

\* the while loop of the folder expansion: pop the last of new_nodes, push
\* it to nodes, push its children to new_nodes
RECURSIVE ExpandFolders(_, _, _)
ExpandFolders(feedList, new_nodes, nodes) ==
    IF Len(new_nodes) = 0 THEN nodes
    ELSE LET node == new_nodes[Len(new_nodes)]
             rest == SubSeq(new_nodes, 1, Len(new_nodes) - 1)
         IN ExpandFolders(feedList, rest \o Children(feedList, node),
                          Append(nodes, node))

\* array.filter(f) for a predicate given as the set of elements it accepts
RECURSIVE FilterSeq(_, _)
FilterSeq(s, keep) ==
    IF s = <<>> THEN <<>>
    ELSE (IF Head(s) \in keep THEN <<Head(s)>> ELSE <<>>)
         \o FilterSeq(Tail(s), keep)

\* active_feeds after the "Folder list" block
FolderFilter(feedList, folders) ==
    IF folders.t = "undefined" THEN feedList
    ELSE LET nodes == ExpandFolders(feedList, folders.v, <<>>)
         IN FilterSeq(feedList,
                      {feed \in Range(feedList) : Includes(nodes, feed.feedID)})

\* active_feeds after the "Feed list" and the two "Include hidden" blocks
VisibilityFilter(active, this) ==
    LET includeHiddenFeeds ==
            IF this.feeds.t # "undefined" THEN TRUE
            ELSE Truthy(this.includeHiddenFeeds)
        byFeed == IF this.feeds.t = "undefined" THEN active
                  ELSE FilterSeq(active, {feed \in Range(active) :
                                    Includes(this.feeds.v, feed.feedID)})
        byHidden == IF includeHiddenFeeds THEN byFeed
                    ELSE FilterSeq(byFeed, {feed \in Range(byFeed) :
                                      ~Truthy(Get(feed, "hidden"))})
    IN IF Truthy(this.includeFeedsExcludedFromGlobalViews) THEN byHidden
       ELSE FilterSeq(byHidden, {feed \in Range(byHidden) :
                        ~Truthy(Get(feed, "omitInUnread"))})

\* filters.feeds
ResolveFeeds(feedList, this) ==
    LET active == VisibilityFilter(FolderFilter(feedList, this.folders), this)
    IN [i \in 1..Len(active) |-> active[i].feedID]

\* this.folders after _filters: new_nodes aliases it, and the loop empties it
FoldersAfter(this) ==
    IF this.folders.t = "undefined" THEN this.folders ELSE Arr(<<>>)

\* the sort order check of _filters
InvalidSortOrder(this) ==
    this.sortOrder.t # "undefined" /\ this.sortOrder # Str("date")

\* the object _filters returns (threw: it threw `Invalid sort order`)
Filters(feedList, this) ==
    [threw |-> InvalidSortOrder(this),
     feeds |-> ResolveFeeds(feedList, this),
     entry |-> [read |-> ToNumber(this.read),
                starred |-> this.starred,
                deleted |-> ToNumber(this.deleted),
                tags |-> this.tags],
     sort |-> [direction |-> this.sortDirection,
               limit |-> this.limit,
               offset |-> this.offset,
               start |-> this.startDate,
               end |-> this.endDate]]

\* the direction check of _searchEngine
InvalidDirection(filters) == filters.sort.direction # Str("desc")

\* a >= b and a <= b on dates
DateGE(a, b) == a.t = "number" /\ b.t = "number" /\ a.v >= b.v
DateLE(a, b) == a.t = "number" /\ b.t = "number" /\ a.v <= b.v

\* filterFunction(entry) of _searchEngine
FilterFunction(filters, entry) ==
    /\ Includes(filters.feeds, entry.feedID)
    /\ (filters.entry.read.t = "undefined"
        \/ StrictEq(filters.entry.read, entry.read))
    /\ (filters.entry.starred.t = "undefined"
        \/ StrictEq(filters.entry.starred, entry.starred))
    /\ (filters.entry.deleted.t = "undefined"
        \/ StrictEq(filters.entry.deleted, entry.deleted))
    /\ (filters.entry.tags.t = "undefined"
        \/ \E i \in 1..Len(filters.entry.tags.v) :
              Includes(entry.tags.v, filters.entry.tags.v[i]))
    /\ (filters.sort.start.t = "undefined"
        \/ DateGE(entry.date, filters.sort.start))
    /\ (filters.sort.end.t = "undefined"
        \/ DateLE(entry.date, filters.sort.end))

(***************************************************************************)
(* The index deleted_read_feedID_date: an entry is in the index only if    *)
(* all four fields of its key are valid keys; the cursor visits the        *)
(* entries of the index in key order (ties by primary key).                *)
(***************************************************************************)
Indexed(entry) ==
    /\ IsValidKey(entry.deleted)
    /\ IsValidKey(entry.read)
    /\ IsValidKey(entry.feedID)
    /\ IsValidKey(entry.date)

IndexKey(entry) ==
    <<entry.deleted.v, entry.read.v, entry.feedID.v, entry.date.v, entry.id.v>>

RECURSIVE TupleLess(_, _)
TupleLess(a, b) ==
    /\ a # <<>>
    /\ \/ Head(a) < Head(b)
       \/ Head(a) = Head(b) /\ TupleLess(Tail(a), Tail(b))

RECURSIVE SortByKey(_)
SortByKey(S) ==
    IF S = {} THEN <<>>
    ELSE LET first == CHOOSE x \in S :
                         \A y \in S \ {x} : TupleLess(IndexKey(x), IndexKey(y))
         IN <<first>> \o SortByKey(S \ {first})

\* the records store.index('deleted_read_feedID_date').openCursor() visits
IndexScan(store) ==
    SortByKey({store[k] : k \in {j \in DOMAIN store : Indexed(store[j])}})

(***************************************************************************)
(* State.                                                                  *)
(***************************************************************************)
VARIABLES
    db,             \* Database._db: 0 is null, n > 0 the n-th opened connection
    feeds,          \* Database._feeds, read through Database.feeds
    feedStore,      \* the object store "feeds": feedID -> Feed
    localBackup,    \* browser.storage.local's "feeds" ([] when absent)
    syncBackup,     \* browser.storage.sync's "feeds" ([] when absent)
    entryStore,     \* the object store "entries": id -> Entry
    revisionStore,  \* the object store "revisions": id -> Revision
    ipc,            \* per init() call: where it is
    lpc,            \* per loadFeeds() call (one per opening init()): where it is
    spc,            \* per saveFeeds() call: where it is
    sarg,           \* per saveFeeds() call: its argument
    sset,           \* per saveFeeds() call: the backup areas already written
    feedTxQueue,    \* the transactions on "feeds", in the order of creation
    overlapped,     \* per saveFeeds() call: another save was in flight with it
    epc,            \* per writer of the entry stores: where it is
    earg,           \* per writer: the operation and its argument
    etx,            \* per writer: its transaction
    entryTxQueue,   \* the readwrite transactions on the entry stores, in order
    query,          \* the Query object (this) of the count() call
    qpc,            \* where the count() call is
    filters,        \* count(): the compiled filters
    scan,           \* count(): cursor position, offset, limit, answer, callbacks
    schema          \* the database "brief": on-disk version, layout, open state

feedVars == <<db, feeds, feedStore, localBackup, syncBackup, ipc, lpc, spc,
              sarg, sset, feedTxQueue, overlapped>>
entryVars == <<entryStore, revisionStore, epc, earg, etx, entryTxQueue>>
queryVars == <<query, qpc, filters, scan>>
schemaVars == <<schema>>
vars == <<feedVars, entryVars, queryVars, schemaVars>>

(***************************************************************************)
(* The Transaction Bridge.                                                 *)
(***************************************************************************)
\* _transactionPromise(tx): what the awaiting caller becomes when the
\* transaction ends with the given event. oncomplete resolves, onerror (a
\* request's error event, which bubbles to the transaction) rejects; there
\* is no handler for the abort event
TransactionPromise(event) ==
    CASE event = "complete" -> "resolved"
      [] event = "error" -> "rejected"
      [] OTHER -> "awaiting"

\* _requestPromise(req): onsuccess resolves, onerror rejects
RequestPromise(event) ==
    CASE event = "success" -> "resolved"
      [] OTHER -> "rejected"

(***************************************************************************)
(* Object stores: a store is a function from keys to records.              *)
(***************************************************************************)
EmptyStore == [k \in {} |-> Null]

\* store.put(record) under the key k
Put(store, k, record) ==
    [x \in DOMAIN store \cup {k} |-> IF x = k THEN record ELSE store[x]]

\* store.delete(k)
Delete(store, k) == [x \in DOMAIN store \ {k} |-> store[x]]

\* store.getAll(): the records in key order
RECURSIVE GetAll(_)
GetAll(store) ==
    IF DOMAIN store = {} THEN <<>>
    ELSE LET k == CHOOSE x \in DOMAIN store : \A y \in DOMAIN store : x <= y
         IN <<store[k]>> \o GetAll(Delete(store, k))

\* store.getAllKeys(): the keys in ascending order
RECURSIVE GetAllKeys(_)
GetAllKeys(store) ==
    IF DOMAIN store = {} THEN <<>>
    ELSE LET k == CHOOSE x \in DOMAIN store : \A y \in DOMAIN store : x <= y
         IN <<k>> \o GetAllKeys(Delete(store, k))

(***************************************************************************)
(* Database: init, loadFeeds, saveFeeds.                                   *)
(***************************************************************************)
NumInitCalls == 1
NumSaves == 2

\* the callers of init(): 0 is the count() call, the others call init()
Callers == 0..NumInitCalls
\* the saveFeeds() calls: the callers' own, and the one each loadFeeds() makes
Saves == {<<"user", n>> : n \in 1..NumSaves} \cup {<<"load", c>> : c \in Callers}

\* the feed lists the callers save
SaveLists == {<<MakeFeed(1, Null)>>,
              <<MakeFeed(2, Num(1)), MakeFeed(1, Null)>>}

\* saveFeeds: the store after clear() and a put() of each feed of the list
RECURSIVE PutFeeds(_, _)
PutFeeds(store, list) ==
    IF list = <<>> THEN store
    ELSE PutFeeds(Put(store, Head(list).feedID.v, Head(list)), Tail(list))

\* a backup copy that drops the favicon and keeps the null-valued properties
MinimizedKeepsNulls(feed) ==
    [key \in {k \in DOMAIN feed : k # "favicon"} |-> feed[key]]

\* _saveFeedBackups: a feed without its favicon and its null-valued properties
Minimized(feed) ==
    [key \in {k \in DOMAIN feed : k # "favicon" /\ feed[k] # Null} |-> feed[key]]

\* _saveFeedBackups: minimizedFeeds
MinimizedFeeds(list) == [i \in 1..Len(list) |-> Minimized(list[i])]

\* the connections opened so far
Opened == {c \in Callers : ipc[c] \in {"listing", "resolved"}}

\* the saveFeeds() calls in flight
ActiveSaves == {s \in Saves : spc[s] \in {"tx", "backups"}}

\* init() up to its first await: return if _db is set, else ask for the
\* storage preference (the call is then suspended, "opening", until the
\* database is open)
InitEnter(c) ==
    ipc' = [ipc EXCEPT ![c] = IF db # 0 THEN "returned" ELSE "opening"]

\* a caller calls init()
InitCall(c) ==
    /\ c # 0
    /\ ipc[c] = "idle"
    /\ InitEnter(c)
    /\ UNCHANGED <<db, feeds, feedStore, localBackup, syncBackup, lpc, spc,
                   sarg, sset, feedTxQueue, overlapped>>
    /\ UNCHANGED <<entryVars, schemaVars, queryVars>>

\* init() resumes with the storage preference, calls indexedDB.open, and
\* the open request succeeds: init() sets _db, calls loadFeeds() (which
\* runs to its first await, the getAll request) and awaits listEntries()
InitOpened(c) ==
    /\ ipc[c] = "opening"
    /\ db' = Cardinality(Opened) + 1
    /\ lpc' = [lpc EXCEPT ![c] = "getAll"]
    /\ feedTxQueue' = Append(feedTxQueue, <<"load", c>>)
    /\ ipc' = [ipc EXCEPT ![c] = "listing"]
    /\ UNCHANGED <<feeds, feedStore, localBackup, syncBackup, spc, sarg, sset,
                   overlapped>>
    /\ UNCHANGED <<entryVars, schemaVars, queryVars>>

\* the getAllKeys request of listEntries() succeeds: init() resolves
InitResolve(c) ==
    /\ ipc[c] = "listing"
    /\ ipc' = [ipc EXCEPT ![c] = RequestPromise("success")]
    /\ UNCHANGED <<db, feeds, feedStore, localBackup, syncBackup, lpc, spc,
                   sarg, sset, feedTxQueue, overlapped>>
    /\ UNCHANGED <<entryVars, schemaVars, queryVars>>

\* saveFeeds(list) up to its first await, for the save s: nothing if _db is
\* null, else a readwrite transaction with clear() and the put()s
SaveFeedsEnter(s, list) ==
    IF db = 0
    THEN /\ spc' = [spc EXCEPT ![s] = "skipped"]
         /\ UNCHANGED <<sarg, feedTxQueue, overlapped>>
    ELSE /\ spc' = [spc EXCEPT ![s] = "tx"]
         /\ sarg' = [sarg EXCEPT ![s] = list]
         /\ feedTxQueue' = Append(feedTxQueue, <<"save", s>>)
         /\ overlapped' = [t \in Saves |->
                IF t = s THEN ActiveSaves # {}
                ELSE overlapped[t] \/ t \in ActiveSaves]

\* the getAll request of loadFeeds() succeeds: with feeds in the store they
\* become _feeds, with none the local backup is asked for
LoadFeedsRead(c) ==
    /\ lpc[c] = "getAll"
    /\ feedTxQueue # <<>> /\ Head(feedTxQueue) = <<"load", c>>
    /\ feedTxQueue' = Tail(feedTxQueue)
    /\ IF Len(GetAll(feedStore)) = 0
       THEN /\ lpc' = [lpc EXCEPT ![c] = "localGet"]
            /\ UNCHANGED feeds
       ELSE /\ lpc' = [lpc EXCEPT ![c] = "done"]
            /\ feeds' = GetAll(feedStore)
    /\ UNCHANGED <<db, feedStore, localBackup, syncBackup, ipc, spc, sarg,
                   sset, overlapped>>
    /\ UNCHANGED <<entryVars, schemaVars, queryVars>>

\* the end of loadFeeds() once a backup was read: saveFeeds(feeds) is
\* called and not awaited, and the list becomes _feeds
LoadFeedsRestore(c, list) ==
    /\ SaveFeedsEnter(<<"load", c>>, list)
    /\ feeds' = list
    /\ lpc' = [lpc EXCEPT ![c] = "done"]

\* a restore that prefers the synced backup to the local one
LoadFeedsLocalSyncFirst(c) ==
    /\ lpc[c] = "localGet"
    /\ IF Len(syncBackup) > 0
       THEN LoadFeedsRestore(c, syncBackup)
       ELSE IF Len(localBackup) = 0
            THEN /\ lpc' = [lpc EXCEPT ![c] = "syncGet"]
                 /\ UNCHANGED <<feeds, spc, sarg, feedTxQueue, overlapped>>
            ELSE LoadFeedsRestore(c, localBackup)
    /\ UNCHANGED <<db, feedStore, localBackup, syncBackup, ipc, sset>>
    /\ UNCHANGED <<entryVars, schemaVars, queryVars>>

\* browser.storage.local.get answers: a non-empty list is restored, with
\* an empty one the synced backup is asked for
LoadFeedsLocal(c) ==
    /\ lpc[c] = "localGet"
    /\ IF Len(localBackup) = 0
       THEN /\ lpc' = [lpc EXCEPT ![c] = "syncGet"]
            /\ UNCHANGED <<feeds, spc, sarg, feedTxQueue, overlapped>>
       ELSE LoadFeedsRestore(c, localBackup)
    /\ UNCHANGED <<db, feedStore, localBackup, syncBackup, ipc, sset>>
    /\ UNCHANGED <<entryVars, schemaVars, queryVars>>

\* browser.storage.sync.get answers: its list is restored
LoadFeedsSync(c) ==
    /\ lpc[c] = "syncGet"
    /\ LoadFeedsRestore(c, syncBackup)
    /\ UNCHANGED <<db, feedStore, localBackup, syncBackup, ipc, sset>>
    /\ UNCHANGED <<entryVars, schemaVars, queryVars>>

\* a caller calls saveFeeds(list)
SaveFeedsCall(n, list) ==
    /\ spc[<<"user", n>>] = "idle"
    /\ SaveFeedsEnter(<<"user", n>>, list)
    /\ UNCHANGED <<db, feeds, feedStore, localBackup, syncBackup, ipc, lpc,
                   sset>>
    /\ UNCHANGED <<entryVars, schemaVars, queryVars>>

\* the transaction of a save ends; on complete the store holds the list
\* and saveFeeds() goes on to _saveFeedBackups, which issues both set()s
SaveFeedsTxEnd(s, event) ==
    /\ spc[s] = "tx"
    /\ feedTxQueue # <<>> /\ Head(feedTxQueue) = <<"save", s>>
    /\ feedTxQueue' = Tail(feedTxQueue)
    /\ feedStore' = IF event = "complete" THEN PutFeeds(EmptyStore, sarg[s])
                    ELSE feedStore
    /\ spc' = [spc EXCEPT ![s] =
                  CASE TransactionPromise(event) = "resolved" -> "backups"
                    [] TransactionPromise(event) = "rejected" -> "rejected"
                    [] OTHER -> "hung"]
    /\ UNCHANGED <<db, feeds, localBackup, syncBackup, ipc, lpc, sarg, sset,
                   overlapped>>
    /\ UNCHANGED <<entryVars, schemaVars, queryVars>>

\* the transaction of a save commits
SaveFeedsCommit(s) ==
    /\ s \in Saves
    /\ SaveFeedsTxEnd(s, "complete")

\* a request of the transaction of a save fails: the transaction aborts
SaveFeedsRequestError(s) ==
    /\ s \in Saves
    /\ SaveFeedsTxEnd(s, "error")

\* the transaction of a save aborts when it commits, with no request error
SaveFeedsAbort(s) ==
    /\ s \in Saves
    /\ SaveFeedsTxEnd(s, "abort")

\* browser.storage.local.set({feeds}) of a save is done
BackupLocalSet(s) ==
    /\ spc[s] = "backups"
    /\ "local" \notin sset[s]
    /\ localBackup' = MinimizedFeeds(sarg[s])
    /\ sset' = [sset EXCEPT ![s] = @ \cup {"local"}]
    /\ UNCHANGED <<db, feeds, feedStore, syncBackup, ipc, lpc, spc, sarg,
                   feedTxQueue, overlapped>>
    /\ UNCHANGED <<entryVars, schemaVars, queryVars>>

\* browser.storage.sync.set({feeds}) of a save is done
BackupSyncSet(s) ==
    /\ spc[s] = "backups"
    /\ "sync" \notin sset[s]
    /\ syncBackup' = MinimizedFeeds(sarg[s])
    /\ sset' = [sset EXCEPT ![s] = @ \cup {"sync"}]
    /\ UNCHANGED <<db, feeds, feedStore, localBackup, ipc, lpc, spc, sarg,
                   feedTxQueue, overlapped>>
    /\ UNCHANGED <<entryVars, schemaVars, queryVars>>

\* Promise.all of both set()s resolves: saveFeeds() completes
SaveFeedsDone(s) ==
    /\ spc[s] = "backups"
    /\ sset[s] = {"local", "sync"}
    /\ spc' = [spc EXCEPT ![s] = "done"]
    /\ UNCHANGED <<db, feeds, feedStore, localBackup, syncBackup, ipc, lpc,
                   sarg, sset, feedTxQueue, overlapped>>
    /\ UNCHANGED <<entryVars, schemaVars, queryVars>>

(***************************************************************************)
(* Database: putEntries, deleteEntries, clearEntries.                      *)
(***************************************************************************)
NumWriters == 2

\* the callers that write the entry stores, one call each, numbered in the
\* order of their calls
Writers == 1..NumWriters

NoTransaction == [state |-> "none", ops |-> <<>>, handlers |-> FALSE]

\* the puts of the loop of putEntries over _putEntry, up to the first put
\* that throws: the requests issued, and whether one threw
RECURSIVE PutRequests(_)
PutRequests(list) ==
    IF list = <<>> THEN [ops |-> <<>>, threw |-> FALSE]
    ELSE LET revision == RevisionRecord(Head(list))
             entry == EntryRecord(Head(list))
             putRevision == [kind |-> "put", store |-> "revisions",
                             key |-> revision.id, record |-> revision]
             putEntry == [kind |-> "put", store |-> "entries",
                          key |-> entry.id, record |-> entry]
             rest == PutRequests(Tail(list))
         IN IF PutThrows(revision) THEN [ops |-> <<>>, threw |-> TRUE]
            ELSE IF PutThrows(entry)
                 THEN [ops |-> <<putRevision>>, threw |-> TRUE]
                 ELSE [ops |-> <<putRevision, putEntry>> \o rest.ops,
                       threw |-> rest.threw]

\* a loop that deletes the revisions and leaves the entries
RECURSIVE DeleteRequestsOfRevisions(_)
DeleteRequestsOfRevisions(ids) ==
    IF ids = <<>> THEN <<>>
    ELSE <<[kind |-> "delete", store |-> "revisions", key |-> Head(ids)]>>
         \o DeleteRequestsOfRevisions(Tail(ids))

\* the deletes of the loop of deleteEntries
RECURSIVE DeleteRequests(_)
DeleteRequests(ids) ==
    IF ids = <<>> THEN <<>>
    ELSE <<[kind |-> "delete", store |-> "revisions", key |-> Head(ids)],
           [kind |-> "delete", store |-> "entries", key |-> Head(ids)]>>
         \o DeleteRequests(Tail(ids))

\* the two clears of clearEntries
ClearRequests ==
    <<[kind |-> "clear", store |-> "revisions"],
      [kind |-> "clear", store |-> "entries"]>>

\* a request applied to a store
ApplyRequest(store, request) ==
    CASE request.kind = "put" -> Put(store, request.key.v, request.record)
      [] request.kind = "delete" -> Delete(store, request.key.v)
      [] OTHER -> EmptyStore

\* the requests of a transaction that address one store, applied in order
RECURSIVE ApplyRequests(_, _, _)
ApplyRequests(store, name, ops) ==
    IF ops = <<>> THEN store
    ELSE ApplyRequests(IF Head(ops).store = name
                       THEN ApplyRequest(store, Head(ops)) ELSE store,
                       name, Tail(ops))

\* a writer creates its transaction with the given requests; with thrown
\* the call has already failed and no handler was attached, else the call
\* awaits _transactionPromise(tx)
BeginWrite(w, arg, ops, thrown) ==
    /\ epc[w] = "idle"
    /\ \A v \in 1..(w - 1) : epc[v] # "idle"
    /\ earg' = [earg EXCEPT ![w] = arg]
    /\ etx' = [etx EXCEPT ![w] = [state |-> "pending", ops |-> ops,
                                  handlers |-> ~thrown]]
    /\ epc' = [epc EXCEPT ![w] = IF thrown THEN "rejected" ELSE "awaiting"]
    /\ entryTxQueue' = Append(entryTxQueue, w)
    /\ UNCHANGED <<entryStore, revisionStore>>
    /\ UNCHANGED <<feedVars, queryVars, schemaVars>>

\* listEntries(): the result of getAllKeys() on "entries"
ListEntries(store) == GetAllKeys(store)

\* a caller calls putEntries(list)
PutEntries(w, list) ==
    /\ Len(list) <= MaxBatch
    /\ BeginWrite(w, [op |-> "putEntries", list |-> list],
                  PutRequests(list).ops, PutRequests(list).threw)

\* a caller calls deleteEntries(ids)
DeleteEntries(w, ids) ==
    /\ Len(ids) <= MaxBatch
    /\ BeginWrite(w, [op |-> "deleteEntries", ids |-> ids],
                  DeleteRequests(ids), FALSE)

\* a caller calls clearEntries()
ClearEntries(w) ==
    /\ w \in Writers
    /\ BeginWrite(w, [op |-> "clearEntries"], ClearRequests, FALSE)

\* the transaction of a writer ends: on complete its requests are applied,
\* on a request error or an abort nothing is; the event reaches the
\* handlers _transactionPromise attached, if the call got to attach them
EntryTxEnd(w, event) ==
    /\ etx[w].state = "pending"
    /\ entryTxQueue # <<>> /\ Head(entryTxQueue) = w
    /\ entryTxQueue' = Tail(entryTxQueue)
    /\ etx' = [etx EXCEPT ![w].state =
                  IF event = "complete" THEN "committed" ELSE "aborted"]
    /\ entryStore' = IF event = "complete"
                     THEN ApplyRequests(entryStore, "entries", etx[w].ops)
                     ELSE entryStore
    /\ revisionStore' = IF event = "complete"
                        THEN ApplyRequests(revisionStore, "revisions", etx[w].ops)
                        ELSE revisionStore
    /\ epc' = [epc EXCEPT ![w] =
                  IF etx[w].handlers THEN TransactionPromise(event) ELSE @]
    /\ UNCHANGED earg
    /\ UNCHANGED <<feedVars, queryVars, schemaVars>>

\* the transaction of a writer commits
EntryTxComplete(w) ==
    /\ w \in Writers
    /\ EntryTxEnd(w, "complete")

\* a request of the transaction fails when it is executed: the error
\* event bubbles to the transaction, which aborts
EntryTxRequestError(w) ==
    /\ etx[w].ops # <<>>
    /\ EntryTxEnd(w, "error")

\* the transaction aborts when it commits, with no request error
EntryTxAbort(w) ==
    /\ w \in Writers
    /\ EntryTxEnd(w, "abort")

(***************************************************************************)
(* Database: upgrade. The database has an on-disk version and a layout     *)
(* (its object stores and the indices of "entries"); init() opens it at    *)
(* the target version, and a lower on-disk version runs upgrade(event)     *)
(* in a versionchange transaction before the open request succeeds.        *)
(***************************************************************************)
TargetVersion == 30

\* the case labels of the switch of upgrade, in the order of the source
UpgradeCases == <<0, 10, 20>>

NoLayout == [stores |-> {}, indices |-> {}]

\* the layout after the body of one case of the switch
UpgradeStep(label, layout) ==
    CASE label = 0 ->
            [stores |-> layout.stores \cup {"revisions", "entries"},
             indices |-> layout.indices
                           \cup {"date", "feedID_date", "primaryHash",
                                 "bookmarkID", "entryURL", "tagName"}]
      [] label = 10 -> [layout EXCEPT !.stores = @ \cup {"feeds"}]
      [] OTHER -> [layout EXCEPT !.indices = @ \cup {"deleted_read_feedID_date"}]

\* switch(event.oldVersion): the cases executed, from the label equal to
\* oldVersion on, each falling through to the next; none when no label is
\* equal to oldVersion
UpgradeSteps(oldVersion) ==
    LET matching == {i \in 1..Len(UpgradeCases) : UpgradeCases[i] = oldVersion}
    IN IF matching = {} THEN <<>>
       ELSE SubSeq(UpgradeCases, CHOOSE i \in matching : TRUE, Len(UpgradeCases))

\* the layout after the bodies of the given cases, in order
RECURSIVE ApplySteps(_, _)
ApplySteps(steps, layout) ==
    IF steps = <<>> THEN layout
    ELSE ApplySteps(Tail(steps), UpgradeStep(Head(steps), layout))

\* a rewrite that stores the inverse of the read state
RewriteReadInverted(value) ==
    [value EXCEPT !.read = Num(IF Truthy(@) THEN 0 ELSE 1)]

\* value.read = value.read ? 1 : 0
RewriteRead(value) ==
    [value EXCEPT !.read = Num(IF Truthy(@) THEN 1 ELSE 0)]

\* the database opened at the target version, upgraded
OpenSchema ==
    [version |-> TargetVersion,
     layout |-> ApplySteps(UpgradeCases, NoLayout),
     pc |-> "open",
     cursor |-> 0]

\* indexedDB.open finds a lower on-disk version: upgrade(event) runs the
\* cases of the switch; case 20 opens the cursor of the read rewrite
OpenUpgrade ==
    /\ schema.pc = "closed"
    /\ schema.version < TargetVersion
    /\ LET steps == UpgradeSteps(schema.version)
       IN schema' = [schema EXCEPT
                        !.layout = ApplySteps(steps, @),
                        !.pc = IF Includes(steps, 20) THEN "rewriting"
                               ELSE "upgraded",
                        !.cursor = 0]
    /\ UNCHANGED <<feedVars, entryVars, queryVars>>

\* cursor.onsuccess of the read rewrite: the next entry in key order is
\* rewritten and updated; with a null cursor the rewrite is over
RewriteCursorSuccess ==
    /\ schema.pc = "rewriting"
    /\ LET rest == {k \in DOMAIN entryStore : k > schema.cursor}
       IN IF rest = {}
          THEN /\ schema' = [schema EXCEPT !.pc = "upgraded"]
               /\ UNCHANGED entryStore
          ELSE LET k == CHOOSE x \in rest : \A y \in rest : x <= y
               IN /\ entryStore' = Put(entryStore, k, RewriteRead(entryStore[k]))
                  /\ schema' = [schema EXCEPT !.cursor = k]
    /\ UNCHANGED <<revisionStore, epc, earg, etx, entryTxQueue>>
    /\ UNCHANGED <<feedVars, queryVars>>

\* the versionchange transaction completes and the open request succeeds:
\* the database is at the target version
UpgradeComplete ==
    /\ schema.pc = "upgraded"
    /\ schema' = [schema EXCEPT !.version = TargetVersion, !.pc = "open"]
    /\ UNCHANGED <<feedVars, entryVars, queryVars>>

\* indexedDB.open finds the target version on disk: no upgrade
OpenCurrent ==
    /\ schema.pc = "closed"
    /\ schema.version = TargetVersion
    /\ schema' = [schema EXCEPT !.pc = "open"]
    /\ UNCHANGED <<feedVars, entryVars, queryVars>>

(***************************************************************************)
(* Query: count().                                                         *)
(***************************************************************************)
\* Query.prototype: the defaults of a Query object
QueryPrototype ==
    [feeds |-> Undef, folders |-> Undef, tags |-> Undef, read |-> Undef,
     starred |-> Undef, deleted |-> Undef, searchString |-> Undef,
     startDate |-> Undef, endDate |-> Undef, limit |-> Undef,
     offset |-> Num(0), sortOrder |-> Undef, sortDirection |-> Str("desc"),
     includeHiddenFeeds |-> Bool(FALSE),
     includeFeedsExcludedFromGlobalViews |-> Bool(TRUE)]

\* count(): the scan state after compilation (offset || 0, limit or Infinity)
StartScan(f) ==
    [pos |-> 1,
     offset |-> IF Truthy(f.sort.offset) THEN f.sort.offset.v ELSE 0,
     limit |-> IF f.sort.limit.t = "undefined" THEN Infinity ELSE f.sort.limit,
     answer |-> 0,
     totalCallbacks |-> 0,
     stopped |-> FALSE]

\* limit <= 0
LimitExhausted(limit) == limit.t = "number" /\ limit.v <= 0

\* limit -= 1
LimitMinusOne(limit) ==
    IF limit.t = "number" THEN Num(limit.v - 1) ELSE limit

\* a callback in which a record skipped for the offset also uses up limit
CursorCallbackOffsetUsesLimit(sc, f, entry) ==
    IF LimitExhausted(sc.limit)
    THEN [sc EXCEPT !.totalCallbacks = @ + 1, !.stopped = TRUE]
    ELSE IF FilterFunction(f, entry)
         THEN IF sc.offset > 0
              THEN [sc EXCEPT !.totalCallbacks = @ + 1, !.pos = @ + 1,
                              !.offset = @ - 1,
                              !.limit = LimitMinusOne(@)]
              ELSE [sc EXCEPT !.totalCallbacks = @ + 1, !.pos = @ + 1,
                              !.answer = @ + 1,
                              !.limit = LimitMinusOne(@)]
         ELSE [sc EXCEPT !.totalCallbacks = @ + 1, !.pos = @ + 1]

\* req.onsuccess of count() with the cursor on entry
CursorCallback(sc, f, entry) ==
    IF LimitExhausted(sc.limit)
    THEN [sc EXCEPT !.totalCallbacks = @ + 1, !.stopped = TRUE]
    ELSE IF FilterFunction(f, entry)
         THEN IF sc.offset > 0
              THEN [sc EXCEPT !.totalCallbacks = @ + 1, !.pos = @ + 1,
                              !.offset = @ - 1]
              ELSE [sc EXCEPT !.totalCallbacks = @ + 1, !.pos = @ + 1,
                              !.answer = @ + 1,
                              !.limit = LimitMinusOne(@)]
         ELSE [sc EXCEPT !.totalCallbacks = @ + 1, !.pos = @ + 1]

\* query.count() is called: it awaits Database.init()
CountCall ==
    /\ qpc = "idle"
    /\ ipc[0] = "idle"
    /\ qpc' = "init"
    /\ InitEnter(0)
    /\ UNCHANGED <<db, feeds, feedStore, localBackup, syncBackup, lpc, spc,
                   sarg, sset, feedTxQueue, overlapped>>
    /\ UNCHANGED <<entryVars, schemaVars, query, filters, scan>>

\* count() resumes after init(): _filters() and _searchEngine() run, then
\* the transaction and the cursor request are created
CountCompile ==
    /\ qpc = "init"
    /\ ipc[0] \in {"returned", "resolved"}
    /\ query' = [query EXCEPT !.folders = FoldersAfter(query)]
    /\ LET f == Filters(feeds, query)
       IN IF f.threw \/ InvalidDirection(f)
          THEN /\ qpc' = "configError"
               /\ UNCHANGED <<filters, scan>>
          ELSE /\ qpc' = "scanning"
               /\ filters' = f
               /\ scan' = StartScan(f)
    /\ UNCHANGED <<feedVars, entryVars, schemaVars>>

\* the cursor request succeeds once more: with a null cursor nothing is
\* done, else the callback runs
CursorSuccess ==
    /\ qpc = "scanning"
    /\ ~scan.stopped
    /\ LET index == IndexScan(entryStore)
       IN scan' = IF scan.pos > Len(index)
                  THEN [scan EXCEPT !.stopped = TRUE]
                  ELSE CursorCallback(scan, filters, index[scan.pos])
    /\ UNCHANGED <<feedVars, entryVars, schemaVars, query, qpc, filters>>

\* the transaction of count() completes: count() returns answer
CountComplete ==
    /\ qpc = "scanning"
    /\ scan.stopped
    /\ qpc' = IF TransactionPromise("complete") = "resolved" THEN "done"
              ELSE "scanning"
    /\ UNCHANGED <<feedVars, entryVars, schemaVars, query, filters, scan>>

\* the callbacks of the cursor of count() from the scan state sc to the
\* end of the scan: the answer
RECURSIVE ScanAll(_, _, _)
ScanAll(sc, f, index) ==
    IF sc.stopped \/ sc.pos > Len(index) THEN sc.answer
    ELSE ScanAll(CursorCallback(sc, f, index[sc.pos]), f, index)

\* what count() returns for the Query object `this`, the feed list and the
\* entry store given (-1 stands for a count() that rejects: the compilation
\* throws or the cursor cannot be opened)
CountOf(feedList, store, this) ==
    LET f == Filters(feedList, this)
    IN IF f.threw \/ InvalidDirection(f) THEN -1
       ELSE ScanAll(StartScan(f), f, IndexScan(store))

(***************************************************************************)
(* Inputs: entries, feed lists, queries.                                   *)
(***************************************************************************)
MaxEntries == 6

\* the entries of the sample scenario: boolean read, no deleted property
SampleEntries ==
    <<[id |-> Num(1), feedID |-> Num(1), read |-> Bool(FALSE), date |-> Num(100)],
      [id |-> Num(2), feedID |-> Num(1), read |-> Bool(TRUE), date |-> Num(200)]>>

\* the i-th entry a caller writes: numeric read and deleted, spread over the
\* feeds, every fourth one read, every fifth one deleted
EntryAt(i) ==
    [id |-> Num(i + 2),
     feedID |-> Num(1 + ((i - 1) % MaxFeeds)),
     read |-> Num(IF i % 4 = 0 THEN 1 ELSE 0),
     starred |-> Bool(i % 2 = 0),
     deleted |-> Num(IF i % 5 = 0 THEN 1 ELSE 0),
     tags |-> CASE i % 3 = 1 -> Text(<<"a", ",", " ", "b">>)
                [] i % 3 = 2 -> Undef
                [] OTHER -> Text(<<"b">>),
     date |-> Num(100 * i),
     bookmarkID |-> Num(IF i % 2 = 0 THEN -1 ELSE i),
     title |-> Str("title"),
     updated |-> Num(100 * i)]

EntriesUpTo(n) == [i \in 1..n |-> EntryAt(i)]

\* the entry and revision stores after the puts of a list of entries
RECURSIVE EntriesPut(_, _)
EntriesPut(store, list) ==
    IF list = <<>> THEN store
    ELSE EntriesPut(Put(store, Head(list).id.v, EntryRecord(Head(list))),
                    Tail(list))

RECURSIVE RevisionsPut(_, _)
RevisionsPut(store, list) ==
    IF list = <<>> THEN store
    ELSE RevisionsPut(Put(store, Head(list).id.v, RevisionRecord(Head(list))),
                      Tail(list))

\* the lists of entries the stores hold when a query runs
StoredLists ==
    {EntriesUpTo(n) : n \in 0..MaxEntries}
    \cup {SampleEntries \o EntriesUpTo(n) : n \in 0..MaxEntries}

\* parent assignments (0: no parent) that make the feeds a forest
RECURSIVE ReachesRoot(_, _, _)
ReachesRoot(par, i, fuel) ==
    \/ i = 0
    \/ fuel > 0 /\ ReachesRoot(par, par[i], fuel - 1)

Forests ==
    {par \in [1..MaxFeeds -> 0..MaxFeeds] :
        \A i \in 1..MaxFeeds : ReachesRoot(par, i, MaxFeeds)}

\* the orders of a feed list: the rotations of 1..MaxFeeds and of its
\* reverse
Orders ==
    {[k \in 1..MaxFeeds |-> ((k + r) % MaxFeeds) + 1] : r \in 0..(MaxFeeds - 1)}
    \cup {[k \in 1..MaxFeeds |-> MaxFeeds - ((k + r) % MaxFeeds)] :
             r \in 0..(MaxFeeds - 1)}

ParentValue(n) == IF n = 0 THEN Null ELSE Num(n)

\* every feed list over the feeds 1..MaxFeeds whose parent relation is a
\* forest, in each of the orders
TreeFeedLists ==
    {[k \in 1..MaxFeeds |-> MakeFeed(p[k], ParentValue(par[p[k]]))] :
        par \in Forests, p \in Orders}

\* the same feed lists in the order of their ids
SortedTreeFeedLists ==
    {[k \in 1..MaxFeeds |-> MakeFeed(k, ParentValue(par[k]))] : par \in Forests}

\* the feed lists of the pagination queries: the feed of the sample
\* scenario alone, and all feeds side by side
FlatFeedLists ==
    {<<MakeFeed(1, Null)>>, [k \in 1..MaxFeeds |-> MakeFeed(k, Null)]}

\* the folder lists of a query: up to two folder ids, in any order
FolderLists ==
    {<<>>} \cup {<<Num(i)>> : i \in 1..MaxFeeds}
    \cup {<<Num(i), Num(j)>> : i, j \in 1..MaxFeeds}

\* queries that constrain read and deleted and paginate
PageQueries ==
    {[QueryPrototype EXCEPT !.read = r, !.deleted = d, !.limit = l,
                            !.offset = Num(o)] :
        r \in {Undef, Bool(FALSE), Bool(TRUE), Num(0)},
        d \in {Undef, Bool(FALSE), Num(0)},
        l \in {Undef} \cup {Num(n) : n \in 0..MaxLimit},
        o \in 0..MaxOffset}

\* queries that constrain the other entry fields
FieldQueries ==
    {[QueryPrototype EXCEPT !.read = Bool(FALSE), !.deleted = d,
                            !.starred = st, !.tags = tg,
                            !.startDate = sd, !.endDate = ed] :
        d \in {Bool(FALSE), Bool(TRUE)},
        st \in {Undef, Bool(FALSE)},
        tg \in {Undef, Arr(<< <<"a">> >>), Arr(<< <<"c">>, <<"b">> >>)},
        sd \in {Undef, Num(200)},
        ed \in {Undef, Num(500)}}

\* queries that select feeds by folder, with hidden feeds included or not
FeedQueries ==
    {[QueryPrototype EXCEPT !.read = Bool(FALSE), !.deleted = Bool(FALSE),
                            !.folders = fo,
                            !.includeHiddenFeeds = Bool(ih)] :
        fo \in {Undef} \cup {Arr(F) : F \in FolderLists},
        ih \in BOOLEAN}

\* queries that select feeds by feed id and by visibility, within a folder
\* or not
VisibilityQueries ==
    {[QueryPrototype EXCEPT !.read = Bool(FALSE), !.deleted = Bool(FALSE),
                            !.folders = fo, !.feeds = fe,
                            !.includeHiddenFeeds = Bool(ih),
                            !.includeFeedsExcludedFromGlobalViews = Bool(ie)] :
        fo \in {Undef, Arr(<<Num(1)>>)},
        fe \in {Undef, Arr(<<Num(2)>>), Arr(<<Num(3), Num(2)>>)},
        ih \in BOOLEAN, ie \in BOOLEAN}

\* queries that differ in the sort specification
SortQueries ==
    {[QueryPrototype EXCEPT !.read = Bool(FALSE), !.deleted = Bool(FALSE),
                            !.sortOrder = so, !.sortDirection = sd] :
        so \in {Str("date"), Str("title")},
        sd \in {Str("desc"), Str("asc")}}

\* nothing is in flight: no call, no transaction
Quiescent ==
    /\ lpc = [c \in Callers |-> "none"]
    /\ spc = [s \in Saves |-> "idle"]
    /\ sarg = [s \in Saves |-> <<>>]
    /\ sset = [s \in Saves |-> {}]
    /\ feedTxQueue = <<>>
    /\ overlapped = [s \in Saves |-> FALSE]
    /\ epc = [w \in Writers |-> "idle"]
    /\ earg = [w \in Writers |-> [op |-> "none"]]
    /\ etx = [w \in Writers |-> NoTransaction]
    /\ entryTxQueue = <<>>
    /\ qpc = "idle"
    /\ filters = Undef
    /\ scan = Undef

(***************************************************************************)
(* QuerySpec: count() on an initialised database, for every feed list,     *)
(* store content and query of the inputs above.                            *)
(***************************************************************************)
QueryInit ==
    /\ Quiescent
    /\ schema = OpenSchema
    /\ db = 1
    /\ ipc = [c \in Callers |-> "idle"]
    /\ \E stored \in StoredLists :
          /\ entryStore = EntriesPut(EmptyStore, stored)
          /\ revisionStore = RevisionsPut(EmptyStore, stored)
          /\ \/ /\ feeds \in FlatFeedLists
                /\ query \in PageQueries \cup FieldQueries \cup SortQueries
             \/ /\ stored = EntriesUpTo(MaxFeeds)
                /\ \/ feeds \in TreeFeedLists /\ query \in FeedQueries
                   \/ feeds \in SortedTreeFeedLists /\ query \in VisibilityQueries
    /\ feedStore = PutFeeds(EmptyStore, feeds)
    /\ localBackup = MinimizedFeeds(feeds)
    /\ syncBackup = MinimizedFeeds(feeds)

QueryNext ==
    \/ CountCall
    \/ CountCompile
    \/ CursorSuccess
    \/ CountComplete

QuerySpec == QueryInit /\ [][QueryNext]_vars

(***************************************************************************)
(* Claims about count() (QuerySpec).                                       *)
(***************************************************************************)
\* the number of records the scan visits that satisfy the predicate
Matching ==
    LET index == IndexScan(entryStore)
    IN Cardinality({i \in 1..Len(index) : FilterFunction(filters, index[i])})

Min(a, b) == IF a <= b THEN a ELSE b
Max(a, b) == IF a >= b THEN a ELSE b

\* the query constrains read alone: every other property is the prototype's
ConstrainsOnlyRead ==
    /\ query.read.t = "boolean"
    /\ query = [QueryPrototype EXCEPT !.read = query.read]

\* the stored entries of the resolved feed set whose read state (0/1 or
\* boolean) is the requested one
EntriesWithReadState ==
    {k \in DOMAIN entryStore :
        /\ Includes(filters.feeds, entryStore[k].feedID)
        /\ Truthy(entryStore[k].read) = query.read.v}

\* C2: for a query that constrains only read, count() is the number of
\* stored entries of the resolved feed set whose read state is the
\* requested one, whatever their deleted, starred and tags values (1 in the
\* sample scenario).
C2_CountByReadOnly ==
    (qpc = "done" /\ ConstrainsOnlyRead)
        => scan.answer = Cardinality(EntriesWithReadState)

\* C3: count() returns min(L, max(0, M - O)) for limit L and offset O, where
\* M is the number of scanned records that satisfy the predicate, and
\* max(0, M - O) when no limit is set.
C3_Pagination ==
    qpc = "done" =>
        LET rest == Max(0, Matching - query.offset.v)
        IN scan.answer = IF query.limit.t = "undefined" THEN rest
                         ELSE Min(query.limit.v, rest)

\* a count with a positive offset and a limit that cuts the result short
C3_Witness ==
    /\ qpc = "done"
    /\ query.limit.t = "number"
    /\ query.offset.v > 0
    /\ Matching - query.offset.v > query.limit.v
    /\ scan.answer = query.limit.v
    /\ scan.answer > 0

\* the ids in F and every id reachable from them through parent -> child
RECURSIVE Descendants(_, _, _)
Descendants(feedList, ids, fuel) ==
    IF fuel = 0 THEN ids
    ELSE Descendants(feedList,
                     ids \cup {feed.feedID : feed \in
                                  {g \in Range(feedList) : Get(g, "parent") \in ids}},
                     fuel - 1)

\* C10: for a feed list whose parent relation is a tree and a folder list
\* F, the folder dimension of the feed set a query resolves is exactly the
\* feeds whose id is in F or reachable from F through parent -> children,
\* whatever the order of F and of the feed list: the resolved set is those
\* feeds among the ones the query's other feed filters (feed ids,
\* visibility) let through, and all of them when no other filter applies.
C10_FolderExpansion ==
    [][(qpc = "init" /\ qpc' = "scanning" /\ query.folders.t = "array")
        => LET closure == Descendants(feeds, Range(query.folders.v), Len(feeds))
               others == Range(ResolveFeeds(feeds,
                                   [query EXCEPT !.folders = Undef]))
           IN /\ Range(filters'.feeds) = closure \cap others
              /\ (query.feeds.t = "undefined"
                  /\ Truthy(query.includeHiddenFeeds)
                  /\ Truthy(query.includeFeedsExcludedFromGlobalViews))
                     => Range(filters'.feeds)
                          = closure \cap {feed.feedID : feed \in Range(feeds)}
       ]_vars

\* the chain 1 -> 2 -> 3 queried by folder 2 with no other feed filter:
\* feeds 2 and 3 are selected and feed 1 is not
C10_Witness ==
    /\ qpc = "scanning"
    /\ Range(feeds) = {MakeFeed(1, Null), MakeFeed(2, Num(1)), MakeFeed(3, Num(2))}
    /\ query.feeds.t = "undefined"
    /\ Truthy(query.includeHiddenFeeds)
    /\ Truthy(query.includeFeedsExcludedFromGlobalViews)
    /\ Range(filters.feeds) = {Num(2), Num(3)}

\* the ids of the feeds in the folders of the query: all of them when the
\* query names no folder
InFolders ==
    IF query.folders.t = "undefined" THEN {feed.feedID : feed \in Range(feeds)}
    ELSE Descendants(feeds, Range(query.folders.v), Len(feeds))

\* the query sets neither visibility option: both are the prototype's
NoVisibilityOption ==
    /\ query.includeHiddenFeeds = QueryPrototype.includeHiddenFeeds
    /\ query.includeFeedsExcludedFromGlobalViews
          = QueryPrototype.includeFeedsExcludedFromGlobalViews

\* C11: with explicit feed ids the resolved feed set is the listed feeds
\* (within the folder expansion), hidden ones included; with none, a hidden
\* feed is resolved only if hidden feeds were requested and a feed excluded
\* from global views only if such feeds were requested, so that a query
\* with no visibility option resolves neither kind.
C11_FeedVisibility ==
    [][(qpc = "init" /\ qpc' = "scanning")
        => LET resolved == {feed \in Range(feeds) :
                               feed.feedID \in Range(filters'.feeds)}
           IN /\ query.feeds.t = "array"
                    => Range(filters'.feeds)
                         = {feed.feedID : feed \in Range(feeds)}
                           \cap Range(query.feeds.v) \cap InFolders
              /\ query.feeds.t = "undefined"
                    => \A feed \in resolved :
                          /\ Truthy(Get(feed, "hidden"))
                                => Truthy(query.includeHiddenFeeds)
                          /\ Truthy(Get(feed, "omitInUnread"))
                                => Truthy(query.includeFeedsExcludedFromGlobalViews)
              /\ (query.feeds.t = "undefined" /\ NoVisibilityOption)
                    => \A feed \in resolved :
                          /\ ~Truthy(Get(feed, "hidden"))
                          /\ ~Truthy(Get(feed, "omitInUnread"))
       ]_vars

\* C19: count() leaves every property of the Query object unchanged, its
\* folders list included, so that a second count() on the same object,
\* with the same stores and feed list, returns the number the first one
\* returned.
C19_CountRepeatable ==
    [][/\ (qpc = "init" /\ qpc' = "scanning") => query' = query
       /\ (qpc = "scanning" /\ qpc' = "done")
            => CountOf(feeds', entryStore', query') = scan'.answer]_vars

(***************************************************************************)
(* EntrySpec: callers write the entry stores of an initialised, empty      *)
(* database.                                                               *)
(***************************************************************************)
\* an entry whose id is no valid key, and one that cannot be cloned
BadKeyEntry == [id |-> Bool(TRUE), feedID |-> Num(1), read |-> Num(0),
                deleted |-> Num(0), date |-> Num(100)]
UnclonableEntry == [id |-> Num(9), feedID |-> Num(1), read |-> Num(0),
                    deleted |-> Num(0), date |-> Num(100), entryURL |-> Fn]

\* EntryAt(1) as a feed update delivers it again: same id, other fields
UpdatedEntry ==
    [EntryAt(1) EXCEPT !.title = Str("updated"), !.tags = Text(<<"b">>),
                       !.read = Num(1)]

\* the entries callers write, in a round: a list a caller passes is a run
\* of neighbours of the round
WrittenEntries ==
    <<EntryAt(1), EntryAt(2), UnclonableEntry, SampleEntries[1], BadKeyEntry,
      UpdatedEntry>>

\* the n elements of the round s that start at its element i
Window(s, i, n) == [j \in 1..n |-> s[1 + ((i + j - 2) % Len(s))]]

\* the lists a caller passes to putEntries
PutLists ==
    {Window(WrittenEntries, i, n) :
        i \in 1..Len(WrittenEntries), n \in 0..MaxBatch}

\* the id lists a caller passes to deleteEntries
DeleteLists ==
    {Window(<<Num(1), Num(3)>>, i, n) : i \in 1..2, n \in 0..MaxBatch}

EntryInit ==
    /\ Quiescent
    /\ schema = OpenSchema
    /\ db = 1
    /\ ipc = [c \in Callers |-> "idle"]
    /\ feeds = <<>>
    /\ feedStore = EmptyStore
    /\ localBackup = <<>>
    /\ syncBackup = <<>>
    /\ entryStore = EmptyStore
    /\ revisionStore = EmptyStore
    /\ query = QueryPrototype

EntryNext ==
    \/ \E w \in Writers, list \in PutLists : PutEntries(w, list)
    \/ \E w \in Writers, ids \in DeleteLists : DeleteEntries(w, ids)
    \/ \E w \in Writers : ClearEntries(w)
    \/ \E w \in Writers : EntryTxComplete(w)
    \/ \E w \in Writers : EntryTxRequestError(w)
    \/ \E w \in Writers : EntryTxAbort(w)

EntrySpec == EntryInit /\ [][EntryNext]_vars

(***************************************************************************)
(* Claims about the writers of the entry stores (EntrySpec).               *)
(***************************************************************************)
\* a record putEntries built from origEntry is in one of the stores
RecordVisible(origEntry) ==
    /\ IsValidKey(origEntry.id)
    /\ \/ /\ origEntry.id.v \in DOMAIN entryStore
          /\ entryStore[origEntry.id.v] = EntryRecord(origEntry)
       \/ /\ origEntry.id.v \in DOMAIN revisionStore
          /\ revisionStore[origEntry.id.v] = RevisionRecord(origEntry)

\* both records putEntries built from origEntry are in the stores
RecordsWritten(origEntry) ==
    /\ IsValidKey(origEntry.id)
    /\ origEntry.id.v \in DOMAIN entryStore
    /\ entryStore[origEntry.id.v] = EntryRecord(origEntry)
    /\ origEntry.id.v \in DOMAIN revisionStore
    /\ revisionStore[origEntry.id.v] = RevisionRecord(origEntry)

\* w called putEntries and no other writer has called anything
OnlyPutEntries(w) ==
    /\ earg[w].op = "putEntries"
    /\ \A v \in Writers \ {w} : earg[v].op = "none"

\* C1: putEntries(list) is all-or-nothing: when the call has failed to its
\* caller (a put was rejected when issued, or a put request errored) none
\* of the records of the call is visible in the stores, and when it has
\* resolved all of them are.
C1_AllOrNothing ==
    \A w \in Writers :
        OnlyPutEntries(w) =>
            /\ epc[w] = "rejected" =>
                  \A i \in 1..Len(earg[w].list) : ~RecordVisible(earg[w].list[i])
            /\ epc[w] = "resolved" =>
                  \A i \in 1..Len(earg[w].list) : RecordsWritten(earg[w].list[i])

\* C6: a caller awaiting a transaction has been resumed once the
\* transaction has ended: resolved when it committed, rejected when it
\* failed, whether by a request error or by an abort with no request error.
C6_ResumedWhenEnded ==
    \A w \in Writers :
        etx[w].handlers =>
            /\ etx[w].state = "committed" => epc[w] = "resolved"
            /\ etx[w].state = "aborted" => epc[w] = "rejected"

\* C12: in every reachable state of the stores the read field of every
\* stored Entry is the integer 0 or 1, never a boolean, so that the entry
\* is in the index deleted_read_feedID_date.
C12_ReadIsSmallInteger ==
    \A k \in DOMAIN entryStore : entryStore[k].read \in {Num(0), Num(1)}

\* the transaction of a putEntries call of w, none of whose puts threw,
\* commits in this step
CommitsPutEntries(w) ==
    /\ earg[w].op = "putEntries"
    /\ etx[w].handlers
    /\ etx[w].state = "pending"
    /\ etx'[w].state = "committed"

\* no later entry of the list has the id of the i-th one
LastWithId(list, i) ==
    \A j \in (i + 1)..Len(list) : list[j].id # list[i].id

\* the pieces joined by ', '
RECURSIVE Join(_)
Join(pieces) ==
    IF Len(pieces) = 0 THEN <<>>
    ELSE IF Len(pieces) = 1 THEN pieces[1]
         ELSE pieces[1] \o <<",", " ">> \o Join(Tail(pieces))

\* the separator ', ' occurs in the characters cs
HasSeparator(cs) ==
    \E i \in 1..(Len(cs) - 1) : cs[i] = "," /\ cs[i + 1] = " "

\* the characters of the tags of an input entry ('' when it has none)
TagChars(origEntry) ==
    IF Truthy(Get(origEntry, "tags")) THEN origEntry.tags.chars ELSE <<>>

\* the stored records of an input entry have the given fields of the input
FieldsStored(origEntry, entryFields, revisionFields, entry, revision) ==
    /\ \A name \in entryFields : entry[name] = Get(origEntry, name)
    /\ \A name \in revisionFields : revision[name] = Get(origEntry, name)

\* C13 as stated: when a putEntries call commits, the Entry record stored
\* under each input id has every fixed Entry field, tags included, equal to
\* the input's value, and the Revision record every fixed Revision field.
C13_RoundTripAllFields ==
    [][\A w \in Writers :
          CommitsPutEntries(w) =>
              \A i \in 1..Len(earg[w].list) :
                  LastWithId(earg[w].list, i) =>
                      FieldsStored(earg[w].list[i], ENTRY_FIELDS, REVISION_FIELDS,
                                   entryStore'[earg[w].list[i].id.v],
                                   revisionStore'[earg[w].list[i].id.v])]_vars

\* C13 amended: when a putEntries call commits, the Entry record stored
\* under each input id has every fixed Entry field but tags equal to the
\* input's value, its tags are the pieces of the input's tags string
\* between the separators ', ' (one empty piece when the input has no
\* tags), and the Revision record has every fixed Revision field equal to
\* the input's value.
C13_RoundTrip ==
    [][\A w \in Writers :
          CommitsPutEntries(w) =>
              \A i \in 1..Len(earg[w].list) :
                  LastWithId(earg[w].list, i) =>
                      LET origEntry == earg[w].list[i]
                          entry == entryStore'[origEntry.id.v]
                      IN /\ FieldsStored(origEntry, ENTRY_FIELDS \ {"tags"},
                                         REVISION_FIELDS, entry,
                                         revisionStore'[origEntry.id.v])
                         /\ entry.tags.t = "array"
                         /\ Len(entry.tags.v) >= 1
                         /\ \A n \in 1..Len(entry.tags.v) :
                               ~HasSeparator(entry.tags.v[n])
                         /\ Join(entry.tags.v) = TagChars(origEntry)]_vars

\* a committed putEntries call whose list has an entry with two tags and
\* one with none: the records are stored, the tags as two pieces
C13_Witness ==
    \E w \in Writers :
        /\ earg[w].op = "putEntries"
        /\ epc[w] = "resolved"
        /\ earg[w].list = <<EntryAt(1), EntryAt(2)>>
        /\ {3, 4} \subseteq DOMAIN entryStore \cap DOMAIN revisionStore
        /\ entryStore[3].tags = Arr(<< <<"a">>, <<"b">> >>)
        /\ entryStore[4].tags = Arr(<< <<>> >>)
        /\ entryStore[3].date = Num(100)
        /\ revisionStore[3].title = Str("title")

\* the ids a deleteEntries call of w names
DeletedIds(w) == {earg[w].ids[i].v : i \in 1..Len(earg[w].ids)}

\* the transaction of a putEntries call commits in this step
SomePutCommits ==
    \E v \in Writers :
        /\ earg[v].op = "putEntries"
        /\ etx[v].state = "pending"
        /\ etx'[v].state = "committed"

\* C16: once deleteEntries(ids) has committed, listEntries() returns a set
\* disjoint from ids that still holds the ids the call did not name, and
\* the ids stay absent until a later putEntries commits.
C16_DeletedNotListed ==
    [][\A w \in Writers :
          earg[w].op = "deleteEntries" =>
              /\ (etx[w].state = "pending" /\ etx'[w].state = "committed")
                    => /\ Range(ListEntries(entryStore')) \cap DeletedIds(w) = {}
                       /\ Range(ListEntries(entryStore)) \ DeletedIds(w)
                             \subseteq Range(ListEntries(entryStore'))
              /\ (/\ etx[w].state = "committed"
                  /\ Range(ListEntries(entryStore)) \cap DeletedIds(w) = {}
                  /\ ~SomePutCommits)
                    => Range(ListEntries(entryStore')) \cap DeletedIds(w) = {}]_vars

\* a deleteEntries([3]) committed after a putEntries of the entries 3 and
\* 4: listEntries() returns 4 alone
C16_Witness ==
    \E w, v \in Writers :
        /\ earg[w] = [op |-> "deleteEntries", ids |-> <<Num(3)>>]
        /\ etx[w].state = "committed"
        /\ epc[w] = "resolved"
        /\ earg[v] = [op |-> "putEntries", list |-> <<EntryAt(1), EntryAt(2)>>]
        /\ etx[v].state = "committed"
        /\ ListEntries(entryStore) = <<4>>

\* C20: in every reachable state the ids of the Entry store are the ids of
\* the Revision store, and the revisions list of every stored Entry holds
\* exactly one reference, to the Revision with the Entry's own id.
C20_EntryRevisionPairing ==
    /\ DOMAIN entryStore = DOMAIN revisionStore
    /\ \A k \in DOMAIN entryStore :
          entryStore[k].revisions = Arr(<<[id |-> Num(k)]>>)

(***************************************************************************)
(* Spec: the Database from its construction: callers call init(),          *)
(* saveFeeds() and count() in any order and at any time; the requests,     *)
(* the transactions and the backup calls complete in any order the         *)
(* backend allows.                                                         *)
(***************************************************************************)
\* what the "feeds" store and the two backups may hold when the program
\* starts
InitialFeedLists == {<<>>, <<MakeFeed(1, Null), MakeFeed(2, Num(1))>>}
InitialLocalBackups == {<<>>, MinimizedFeeds(<<MakeFeed(3, Null)>>)}
InitialSyncBackups == {<<>>, MinimizedFeeds(<<MakeFeed(2, Null)>>)}

Init ==
    /\ Quiescent
    /\ schema = OpenSchema
    /\ db = 0
    /\ feeds = <<>>
    /\ ipc = [c \in Callers |-> "idle"]
    /\ \E list \in InitialFeedLists : feedStore = PutFeeds(EmptyStore, list)
    /\ localBackup \in InitialLocalBackups
    /\ syncBackup \in InitialSyncBackups
    /\ entryStore = EmptyStore
    /\ revisionStore = EmptyStore
    /\ query \in SortQueries

\* the steps of the callers of init() and count(), of loadFeeds() and of
\* the save it makes, in which nothing fails
StartupNext ==
    \/ \E c \in Callers : InitCall(c)
    \/ \E c \in Callers : InitOpened(c)
    \/ \E c \in Callers : InitResolve(c)
    \/ \E c \in Callers : LoadFeedsRead(c)
    \/ \E c \in Callers : LoadFeedsLocal(c)
    \/ \E c \in Callers : LoadFeedsSync(c)
    \/ \E s \in Saves : SaveFeedsCommit(s)
    \/ \E s \in Saves : BackupLocalSet(s)
    \/ \E s \in Saves : BackupSyncSet(s)
    \/ \E s \in Saves : SaveFeedsDone(s)
    \/ CountCall
    \/ CountCompile
    \/ CursorSuccess
    \/ CountComplete

\* one caller also saves a feed list, and transactions may fail
Next ==
    \/ StartupNext
    \/ \E list \in SaveLists : SaveFeedsCall(1, list)
    \/ \E s \in Saves : SaveFeedsRequestError(s)
    \/ \E s \in Saves : SaveFeedsAbort(s)

Spec == Init /\ [][Next]_vars

\* the steps the event loop and the backend take on their own: every one
\* but a caller's call
Progress ==
    \/ \E c \in Callers : InitOpened(c) \/ InitResolve(c)
    \/ \E c \in Callers : LoadFeedsRead(c) \/ LoadFeedsLocal(c) \/ LoadFeedsSync(c)
    \/ \E s \in Saves : SaveFeedsCommit(s) \/ BackupLocalSet(s)
                        \/ BackupSyncSet(s) \/ SaveFeedsDone(s)
    \/ CountCompile \/ CursorSuccess \/ CountComplete

\* FairSpec: the startup when no transaction fails, and a request, a
\* transaction or a backup call that can complete eventually does
FairSpec == Init /\ [][StartupNext]_vars /\ WF_vars(Progress)

(***************************************************************************)
(* SaveSpec: callers call saveFeeds() on an initialised database.          *)
(***************************************************************************)
SaveInit ==
    /\ Quiescent
    /\ schema = OpenSchema
    /\ db = 1
    /\ ipc = [c \in Callers |-> "idle"]
    /\ feeds \in InitialFeedLists
    /\ feedStore = PutFeeds(EmptyStore, feeds)
    /\ localBackup \in InitialLocalBackups \cup {MinimizedFeeds(feeds)}
    /\ syncBackup \in InitialSyncBackups \cup {MinimizedFeeds(feeds)}
    /\ entryStore = EmptyStore
    /\ revisionStore = EmptyStore
    /\ query = QueryPrototype

SaveNext ==
    \/ \E n \in 1..NumSaves, list \in SaveLists : SaveFeedsCall(n, list)
    \/ \E s \in Saves : SaveFeedsCommit(s)
    \/ \E s \in Saves : SaveFeedsRequestError(s)
    \/ \E s \in Saves : SaveFeedsAbort(s)
    \/ \E s \in Saves : BackupLocalSet(s)
    \/ \E s \in Saves : BackupSyncSet(s)
    \/ \E s \in Saves : SaveFeedsDone(s)

SaveSpec == SaveInit /\ [][SaveNext]_vars

(***************************************************************************)
(* Claims about init(), loadFeeds() and saveFeeds().                       *)
(***************************************************************************)
\* C4: when saveFeeds(list) completes while no loadFeeds() is in progress,
\* a read of Database.feeds returns list: the cache is the latest
\* successfully saved feed list.
C4_CacheIsLastSaved ==
    [][\A s \in Saves :
          (/\ spc[s] = "backups" /\ spc'[s] = "done"
           /\ \A c \in Callers : lpc[c] \in {"none", "done"})
              => feeds' = sarg[s]]_vars

\* C5: whatever the calls of init() (count() calls it too), the store is
\* opened at most once, loadFeeds runs at most once and the database
\* handle in place is that of the one opening.
C5_InitOnce ==
    /\ Cardinality(Opened) <= 1
    /\ Cardinality({c \in Callers : lpc[c] # "none"}) <= 1
    /\ db <= 1

\* C7: when count() fails with a configuration error (an invalid sort
\* order or direction), no storage operation preceded the failure: its
\* init() returned without opening the database, whether or not the
\* database was initialised when count() was called.
C7_FailsBeforeStorage ==
    qpc = "configError" => ipc[0] = "returned"

\* the save loadFeeds() of caller c makes
RestoreOf(c) == <<"load", c>>

\* C8: when loadFeeds() finds the primary store empty, the feed list
\* becomes the local backup if that is non-empty and else the synced
\* backup (an empty list when that is empty too, with no error), the
\* recovered list is saved, and the primary store eventually holds exactly
\* the recovered list.
C8_RestoreFromBackups ==
    /\ [][\A c \in Callers :
            /\ (lpc[c] = "localGet" /\ localBackup # <<>>)
                  => (lpc'[c] = "localGet"
                      \/ (/\ lpc'[c] = "done"
                          /\ feeds' = localBackup
                          /\ sarg'[RestoreOf(c)] = localBackup))
            /\ (lpc[c] = "localGet" /\ localBackup = <<>>)
                  => (lpc'[c] = "localGet"
                      \/ (lpc'[c] = "syncGet" /\ feeds' = feeds))
            /\ (lpc[c] = "syncGet")
                  => (lpc'[c] = "syncGet"
                      \/ (/\ lpc'[c] = "done"
                          /\ feeds' = syncBackup
                          /\ sarg'[RestoreOf(c)] = syncBackup))]_vars
    /\ \A c \in Callers :
          (lpc[c] = "localGet")
              ~> (/\ lpc[c] = "done"
                  /\ spc[RestoreOf(c)] = "backups"
                  /\ feedStore = [k \in {sarg[RestoreOf(c)][i].feedID.v :
                                            i \in 1..Len(sarg[RestoreOf(c)])} |->
                                    CHOOSE feed \in Range(sarg[RestoreOf(c)]) :
                                        feed.feedID.v = k])

\* the local backup was restored although the synced backup held another
\* list: it is the feed list and the content of the primary store
C8_Witness ==
    \E c \in Callers :
        /\ lpc[c] = "done"
        /\ spc[RestoreOf(c)] = "backups"
        /\ sset[RestoreOf(c)] = {}
        /\ sarg[RestoreOf(c)] = MinimizedFeeds(<<MakeFeed(3, Null)>>)
        /\ syncBackup = MinimizedFeeds(<<MakeFeed(2, Null)>>)
        /\ feeds = sarg[RestoreOf(c)]
        /\ DOMAIN feedStore = {3}

\* list without the favicon and the null-valued properties of each feed,
\* every other property unchanged
IsMinimizedCopy(backup, list) ==
    /\ Len(backup) = Len(list)
    /\ \A i \in 1..Len(list) :
          /\ "favicon" \notin DOMAIN backup[i]
          /\ \A key \in DOMAIN backup[i] :
                /\ backup[i][key] # Null
                /\ key \in DOMAIN list[i]
                /\ backup[i][key] = list[i][key]
          /\ \A key \in DOMAIN list[i] :
                (key # "favicon" /\ list[i][key] # Null)
                    => key \in DOMAIN backup[i]

\* the store holds exactly the records of list
HoldsExactly(store, list) ==
    /\ DOMAIN store = {list[i].feedID.v : i \in 1..Len(list)}
    /\ \A i \in 1..Len(list) : store[list[i].feedID.v] = list[i]

\* C9: when saveFeeds(list) completes on an initialised database with no
\* overlapping save, the Feed store holds exactly the records of list and
\* both backups hold list without the favicon and the null-valued
\* properties of each feed; a backup is written only by a save whose
\* primary transaction has committed, so a save whose transaction failed
\* has written neither backup.
C9_SaveFeeds ==
    [][/\ \A s \in Saves :
            (spc[s] = "backups" /\ spc'[s] = "done" /\ ~overlapped[s])
                => /\ HoldsExactly(feedStore', sarg[s])
                   /\ IsMinimizedCopy(localBackup', sarg[s])
                   /\ IsMinimizedCopy(syncBackup', sarg[s])
       /\ \A s \in Saves :
            spc'[s] \in {"idle", "skipped", "tx", "rejected", "hung"}
                => sset'[s] = {}
       /\ (localBackup' # localBackup \/ syncBackup' # syncBackup)
            => \E s \in Saves : spc[s] = "backups" /\ sset'[s] # sset[s]
      ]_vars

\* a save of a list with a favicon and a null title completed with no
\* overlapping save, after another save failed
C9_Witness ==
    \E s, t \in Saves :
        /\ spc[s] = "done"
        /\ ~overlapped[s]
        /\ sarg[s] = <<MakeFeed(2, Num(1)), MakeFeed(1, Null)>>
        /\ spc[t] = "rejected"
        /\ HoldsExactly(feedStore, sarg[s])
        /\ IsMinimizedCopy(localBackup, sarg[s])
        /\ localBackup = syncBackup

\* neither the Feed store nor a backup holds a feed
NoFeedsAnywhere ==
    /\ DOMAIN feedStore = {}
    /\ localBackup = <<>>
    /\ syncBackup = <<>>

\* C17: a count() issued once init() has resolved (its own init() returns
\* at once) resolves its feed set against the loaded feed list: never
\* against the initial empty list while the Feed store or a backup holds
\* feeds.
C17_FeedsLoadedWhenInitResolved ==
    [][(/\ qpc = "init" /\ qpc' # "init"
        /\ ipc[0] = "returned"
        /\ \E c \in Callers : ipc[c] = "resolved")
          => (feeds # <<>> \/ NoFeedsAnywhere)]_vars

\* C18: the save of the startup restore has committed before init()
\* resolves: once init() has resolved and a caller's save has committed, no
\* commit of the restore of that init() changes the Feed store.
C18_RestoreBeforeInitResolves ==
    [][\A c \in Callers, n \in 1..NumSaves :
          (/\ ipc[c] = "resolved"
           /\ spc[<<"user", n>>] \in {"backups", "done"}
           /\ spc[RestoreOf(c)] = "tx"
           /\ spc'[RestoreOf(c)] = "backups")
              => feedStore' = feedStore]_vars

(***************************************************************************)
(* MigrateSpec: init() opens a database that an earlier version of the     *)
(* program left on disk, at any version up to the target one, with any     *)
(* content of the entry stores.                                            *)
(***************************************************************************)
OnDiskVersions == {0, 5, 10, 15, 20, 25, TargetVersion}

\* the layout of a database at the given version: the steps below the
\* version have been applied
LayoutAt(version) ==
    ApplySteps(SelectSeq(UpgradeCases, LAMBDA label : label < version), NoLayout)

MigrateInit ==
    /\ Quiescent
    /\ db = 0
    /\ ipc = [c \in Callers |-> "idle"]
    /\ feeds = <<>>
    /\ feedStore = EmptyStore
    /\ localBackup = <<>>
    /\ syncBackup = <<>>
    /\ query = QueryPrototype
    /\ \E version \in OnDiskVersions, stored \in StoredLists :
          /\ schema = [version |-> version, layout |-> LayoutAt(version),
                       pc |-> "closed", cursor |-> 0]
          /\ "entries" \in LayoutAt(version).stores \/ stored = <<>>
          /\ entryStore = EntriesPut(EmptyStore, stored)
          /\ revisionStore = RevisionsPut(EmptyStore, stored)

MigrateNext ==
    \/ OpenUpgrade
    \/ RewriteCursorSuccess
    \/ UpgradeComplete
    \/ OpenCurrent

MigrateSpec == MigrateInit /\ [][MigrateNext]_vars

(***************************************************************************)
(* Claims about upgrade (MigrateSpec).                                     *)
(***************************************************************************)
\* the steps whose version is at least the on-disk version, in increasing
\* order
ExpectedSteps(version) ==
    SelectSeq(UpgradeCases, LAMBDA label : label >= version)

\* the layout has the three stores and the indices of "entries"
FullLayout(layout) ==
    /\ layout.stores = {"revisions", "entries", "feeds"}
    /\ layout.indices = {"date", "feedID_date", "primaryHash", "bookmarkID",
                         "entryURL", "tagName", "deleted_read_feedID_date"}

\* C14: for every on-disk version below the target version the upgrade
\* applies each step whose version is at least the on-disk version, in
\* increasing order, and no step below it; once the database has opened,
\* the layout has the Revision, Entry and Feed stores and the Entry
\* indices, the composite one included.
C14_CumulativeMigration ==
    [][/\ (schema.pc = "closed" /\ schema'.pc # "closed"
           /\ schema.version < TargetVersion)
            => schema'.layout
                 = ApplySteps(ExpectedSteps(schema.version), schema.layout)
       /\ (schema.pc # "open" /\ schema'.pc = "open")
            => FullLayout(schema'.layout)]_vars

\* C15: the read rewrite maps the read of each entry to 0 or 1 with the
\* same truth value, leaves every other field and the set of entry ids
\* unchanged, visits every entry, and a second pass over its result changes
\* no record.
C15_ReadRewrite ==
    [][/\ (schema.pc = "rewriting" /\ schema'.pc = "rewriting")
            => /\ schema'.cursor > schema.cursor
               /\ DOMAIN entryStore' = DOMAIN entryStore
               /\ \A k \in DOMAIN entryStore :
                     /\ DOMAIN entryStore'[k] = DOMAIN entryStore[k]
                     /\ \A name \in DOMAIN entryStore[k] \ {"read"} :
                           entryStore'[k][name] = entryStore[k][name]
                     /\ Truthy(entryStore'[k].read) = Truthy(entryStore[k].read)
                     /\ IF k = schema'.cursor
                        THEN entryStore'[k].read \in {Num(0), Num(1)}
                        ELSE entryStore'[k].read = entryStore[k].read
       /\ (schema.pc = "rewriting" /\ schema'.pc = "upgraded")
            => /\ entryStore' = entryStore
               /\ \A k \in DOMAIN entryStore :
                     /\ k <= schema.cursor
                     /\ entryStore[k].read \in {Num(0), Num(1)}
                     /\ RewriteRead(entryStore[k]) = entryStore[k]]_vars

\* the database has opened after a rewrite of a store that held the two
\* entries of the sample scenario, whose read was false and true
C15_Witness ==
    /\ schema.pc = "open"
    /\ schema.cursor > 0
    /\ {1, 2} \subseteq DOMAIN entryStore
    /\ entryStore[1] = [EntryRecord(SampleEntries[1]) EXCEPT !.read = Num(0)]
    /\ entryStore[2] = [EntryRecord(SampleEntries[2]) EXCEPT !.read = Num(1)]

=============================================================================
